---- MODULE Spec2Model ----
(***************************************************************************)
(* Model of or-rs: the `or_gen` attribute macro (or-rs-macros/src/parser.rs *)
(* MacroParser) that rewrites the branch tails of a typed `let` binding     *)
(* into constructor calls of the annotated Or type, and the enums Or2..Or9  *)
(* (or-rs/src/enums.rs) that code_gen/src/generator.rs generates.           *)
(*                                                                          *)
(* Syntax trees and token streams are records with a kind field `k`.  The   *)
(* rewriter is a recursive descent; every function of MacroParser is an     *)
(* operator of the same name that takes the parser (its `depth` and `typ`   *)
(* fields) and returns the result together with the parser afterwards.      *)
(***************************************************************************)
EXTENDS Integers, Sequences, FiniteSets, TLC

VARIABLES
    input,      \* the item handed to or_gen (a parsed statement, or junk)
    parser,     \* the MacroParser of the latest invocation: depth and typ
    output,     \* what the latest invocation produced: tokens or a panic
    first,      \* the first completed invocation: its input and its output
    count,      \* how many invocations have completed
    value,      \* an Or value of the program that uses the enums, or Moved
    made,       \* how that value was constructed: the variant and the payload
    call,       \* the latest method called on it: receiver, arguments, result
    stack,      \* the blocks, arms and bodies a traversal has still to do
    visited     \* the blocks entered and arms begun by a traversal, in order

vars == <<input, parser, output, first, count, value, made, call, stack, visited>>

(***************************************************************************)
(* Bounds of the model.                                                     *)
(***************************************************************************)
MaxArms == 3        \* arms of a match
MaxChain == 2       \* `if`s of an if / else-if chain
MaxStmts == 3       \* statements of a then- or else-block
MaxNest == 1        \* nesting of a match inside a match arm
MaxCalls == 3       \* invocations of or_gen in one run
MaxMaps == 2        \* map_tx calls on one Or value

(***************************************************************************)
(* syn syntax trees.                                                        *)
(***************************************************************************)
None == [k |-> "None"]

Lit(v) == [k |-> "Lit", v |-> v]
MethodCall(recv, method) == [k |-> "MethodCall", receiver |-> recv, method |-> method]
ExprPath(id) == [k |-> "Path", ident |-> id]
ExprBinary(l, op, r) == [k |-> "Binary", left |-> l, op |-> op, right |-> r]
\* then_branch is a Block: the sequence of its statements
ExprIf(cond, then_branch, else_branch) ==
    [k |-> "If", cond |-> cond, then_branch |-> then_branch, else_branch |-> else_branch]
ExprBlock(stmts) == [k |-> "Block", stmts |-> stmts]
ExprMatch(expr, arms) == [k |-> "Match", expr |-> expr, arms |-> arms]
Arm(pat, guard, body) == [pat |-> pat, guard |-> guard, body |-> body]

StmtExpr(expr, semi) == [k |-> "Expr", expr |-> expr, semi |-> semi]
StmtLocal(pat, init) == [k |-> "Local", pat |-> pat, init |-> init]
StmtItem(id) == [k |-> "Item", ident |-> id]
\* a token stream syn::parse2::<Stmt> rejects
Unparsable == [k |-> "Unparsable"]

PatIdent(id) == [k |-> "Ident", ident |-> id]
PatWild == [k |-> "Wild"]
PatLit(v) == [k |-> "Lit", v |-> v]
PatType(pat, ty) == [k |-> "Type", pat |-> pat, ty |-> ty]

AngleBracketed(args) == [k |-> "AngleBracketed", args |-> args]
PathSegment(id, arguments) == [ident |-> id, arguments |-> arguments]
TypePath(segments) == [k |-> "Path", segments |-> segments]
TypeReference(elem) == [k |-> "Reference", elem |-> elem]

(***************************************************************************)
(* Token streams built by quote!.                                           *)
(***************************************************************************)
\* a statement's tokens: an expression statement without `;` is its expression
ToTokens(stmt) == IF stmt.k = "Expr" /\ ~stmt.semi THEN stmt.expr ELSE stmt

\* #or_type_name::#typ_tok::#method_name(#wraped_expr)
TokCall(or_type_name, typ_tok, method_name, wraped_expr) ==
    [k |-> "Call", or_type_name |-> or_type_name, typ_tok |-> typ_tok,
     method_name |-> method_name, arg |-> wraped_expr]
\* { #before_tok #rewrited_stmt }
TokBlock(items) == [k |-> "Block", stmts |-> items]
\* if #cond_tok #then_tok [else ...]
TokIf(cond, then_tok, else_tok) ==
    [k |-> "If", cond |-> cond, then_branch |-> then_tok, else_branch |-> else_tok]
\* #pat_tok => #expr_tok,
TokArm(pat, expr_tok) == [pat |-> pat, body |-> expr_tok]
\* match 33 { #arms_tok };
TokMatch(arms_tok) == [k |-> "Match", expr |-> Lit("33"), arms |-> arms_tok, semi |-> TRUE]
\* #let_tok #pat_tok #local_tok ;
TokLocal(pat_tok, expr_tok) == [k |-> "Local", pat |-> pat_tok, init |-> expr_tok]

(***************************************************************************)
(* Results: Ok(tokens), Err(Error) and a panic.                             *)
(***************************************************************************)
Ok(tok) == [k |-> "Ok", tok |-> tok]
\* Error::new(err_tok, message): the message and the span of err_tok
Error(err_tok, message) == [k |-> "Err", message |-> message, span |-> err_tok]
Panic(message) == [k |-> "Panic", message |-> message, error |-> None]
\* panic!("{}", e): Display of an Error prints its message
PanicWith(e) == [k |-> "Panic", message |-> e.message, error |-> e]

MsgUnsupported == "Unsupported expression found."
MsgTypeDecl == "Fail to parse type declaration"
MsgLetBinding == "Fail to parse let binding."
MsgElse == "expected else or elseif"
MsgNotLocal == "expected Stmt::Local, but not"
MsgSyn == "syn::Error"
MsgUnreachable == "internal error: entered unreachable code"
MsgOverflow == "attempt to subtract with overflow"
MsgNoAngle == "fail parse, expect token"

\* what a function of MacroParser hands back: its result and the parser after it
Ret(res, p) == [res |-> res, parser |-> p]

(***************************************************************************)
(* The annotated type.                                                      *)
(***************************************************************************)
RECURSIVE JoinArgs(_)
JoinArgs(args) ==
    IF Len(args) = 0 THEN <<>>
    ELSE IF Len(args) = 1 THEN <<args[1]>>
    ELSE <<args[1], ",">> \o JoinArgs(Tail(args))

SegmentTokens(seg) ==
    <<seg.ident>> \o
    (IF seg.arguments.k = "AngleBracketed"
        THEN <<"<">> \o JoinArgs(seg.arguments.args) \o <<">">>
        ELSE <<>>)

RECURSIVE PathTokens(_)
PathTokens(segments) ==
    IF Len(segments) = 0 THEN <<>>
    ELSE IF Len(segments) = 1 THEN SegmentTokens(segments[1])
    ELSE SegmentTokens(segments[1]) \o <<"::">> \o PathTokens(Tail(segments))

\* quote!(#ty).to_string(), token by token
RECURSIVE TypeTokens(_)
TypeTokens(ty) ==
    IF ty.k = "Path" THEN PathTokens(ty.segments)
    ELSE <<"&">> \o TypeTokens(ty.elem)

\* str.find("<"): the index of the first `<`, 0 when there is none
RECURSIVE Find(_, _, _)
Find(toks, t, i) ==
    IF i > Len(toks) THEN 0
    ELSE IF toks[i] = t THEN i
    ELSE Find(toks, t, i + 1)

\* get `<i32, i32, f32>`: the generic arguments of the path's first segment
parse_enum_type(p) ==
    IF p.typ.k = "Path"
    THEN IF Len(p.typ.segments) > 0
         THEN LET seg == p.typ.segments[1] IN
              IF seg.arguments.k = "AngleBracketed"
              THEN Ok(seg.arguments)
              ELSE Error(seg.arguments, MsgTypeDecl)
         ELSE Error(p.typ.segments, MsgTypeDecl)
    ELSE Error(p.typ, MsgTypeDecl)

\* a slip: the cut is one token late and takes the `<` along
NameBefore_Through(str, idx) ==
    IF idx = 0 THEN Panic(MsgNoAngle)
    ELSE Ok(SubSeq(str, 1, idx))

\* the text of str before its first `<`
NameBefore(str, idx) ==
    IF idx = 0 THEN Panic(MsgNoAngle)
    ELSE Ok(SubSeq(str, 1, idx - 1))

\* get `Or3` from Or3<i32,f32,String>
get_or_type_name(p) == NameBefore(TypeTokens(p.typ), Find(TypeTokens(p.typ), "<", 1))

\* format!("T{}", self.depth)
MethodIdent(depth) == <<"T", depth>>

\* a slip: the index follows the kind of the wrapped expression
QuoteCall_ByKind(typ_tok, or_type_name, depth, wraped_expr) ==
    IF typ_tok.k # "Ok" THEN typ_tok
    ELSE IF or_type_name.k # "Ok" THEN or_type_name
    ELSE Ok(TokCall(or_type_name.tok, typ_tok.tok,
                    MethodIdent(IF wraped_expr.k = "MethodCall" THEN depth + 1 ELSE depth),
                    wraped_expr))

\* quote! { #or_type_name::#typ_tok::#method_name(#wraped_expr) }, once both
\* parts of the type are there
QuoteCall(typ_tok, or_type_name, depth, wraped_expr) ==
    IF typ_tok.k # "Ok" THEN typ_tok
    ELSE IF or_type_name.k # "Ok" THEN or_type_name
    ELSE Ok(TokCall(or_type_name.tok, typ_tok.tok, MethodIdent(depth), wraped_expr))

\* get `Or3::<i32, i32, f32>::Tk(expr)`, k the parser's depth
rewrite_method_name(p, wraped_expr) ==
    QuoteCall(parse_enum_type(p), get_or_type_name(p), p.depth, wraped_expr)

(***************************************************************************)
(* Blocks.                                                                  *)
(***************************************************************************)
\* { #before_tok #rewrited_stmt }, or the error of the rewrite
QuoteStmts(p, before, rewrited_stmt) ==
    IF rewrited_stmt.k # "Ok" THEN Ret(rewrited_stmt, p)
    ELSE Ret(Ok(TokBlock(before \o <<rewrited_stmt.tok>>)), p)

\* a slip: the statements before the last one are not emitted
parse_stmts_DropBefore(p, stmts) ==
    IF Len(stmts) = 0 THEN Ret(Panic(MsgOverflow), p)
    ELSE QuoteStmts(p, <<>>, rewrite_method_name(p, ToTokens(stmts[Len(stmts)])))

\* stmts.split_at(stmts.len() - 1): an empty block underflows and panics;
\* the last statement is wrapped whatever it is, the others are kept
parse_stmts(p, stmts) ==
    IF Len(stmts) = 0 THEN Ret(Panic(MsgOverflow), p)
    ELSE QuoteStmts(p, SubSeq(stmts, 1, Len(stmts) - 1),
                    rewrite_method_name(p, ToTokens(stmts[Len(stmts)])))

\* a slip: the counter starts again in every block
parse_then_Reset(p, then_branch) ==
    parse_stmts([p EXCEPT !.depth = 1], then_branch)

\* self.depth += 1, then the block's statements
parse_then(p, then_branch) ==
    parse_stmts([p EXCEPT !.depth = @ + 1], then_branch)

(***************************************************************************)
(* Expressions: the recursive descent.                                      *)
(***************************************************************************)
RECURSIVE parse_expr(_, _)
RECURSIVE parse_expr_if(_, _)
RECURSIVE parse_expr_match(_, _)
RECURSIVE parse_match_arm(_, _)
RECURSIVE ParseArms(_, _, _)

\* a slip: the arm is not counted
EnterArm_NoCount(p) == p

\* self.depth += 1: the arm counts once, before its body is rewritten
EnterArm(p) == [p EXCEPT !.depth = @ + 1]

\* the closure mapped over the arms and collected into a Vec: every arm is
\* rewritten, also after one has failed; only a panic stops the traversal
ArmsAfter(arms, done, r) ==
    IF r.res.k = "Panic" THEN r
    ELSE ParseArms(r.parser, Tail(arms), Append(done, r.res))

ParseArms(p, arms, done) ==
    IF Len(arms) = 0 THEN Ret(Ok(done), p)
    ELSE ArmsAfter(arms, done, parse_match_arm(EnterArm(p), arms[1]))

\* collect::<Result<Vec<_>>>()?: the first Err of the arms, or all their tokens
FirstErr(results) ==
    IF \A i \in 1..Len(results) : results[i].k = "Ok"
    THEN Ok([i \in 1..Len(results) |-> results[i].tok])
    ELSE results[CHOOSE i \in 1..Len(results) :
                    /\ results[i].k # "Ok"
                    /\ \A j \in 1..(i - 1) : results[j].k = "Ok"]

\* quote! { match 33 { #arms_tok }; }
QuoteMatch(arms_tok, p) ==
    IF arms_tok.k # "Ok" THEN Ret(arms_tok, p)
    ELSE Ret(Ok(TokMatch(arms_tok.tok)), p)

CollectArms(r) ==
    IF r.res.k = "Panic" THEN r
    ELSE QuoteMatch(FirstErr(r.res.tok), r.parser)

parse_expr_match(p, expr_match) == CollectArms(ParseArms(p, expr_match.arms, <<>>))

\* quote! { #pat_tok => #expr_tok, }
QuoteArm(arm, r) ==
    IF r.res.k # "Ok" THEN r
    ELSE Ret(Ok(TokArm(arm.pat, r.res.tok)), r.parser)

\* a slip: a nested `if` or `match` counts from 1 again, and the counter of
\* the outer arms goes on where it was
WithParser(r, p) == Ret(r.res, p)

parse_match_arm_Restart(p, arm) ==
    IF arm.body.k \in {"If", "Match"}
    THEN WithParser(QuoteArm(arm, parse_expr([p EXCEPT !.depth = 0], arm.body)), p)
    ELSE QuoteArm(arm, parse_expr(p, arm.body))

\* a slip: an `if` or `match` that is the body of an arm is wrapped as a
\* whole, as the last statement of a block is
parse_match_arm_WrapNested(p, arm) ==
    IF arm.body.k \in {"If", "Match"}
    THEN QuoteArm(arm, Ret(rewrite_method_name(p, arm.body), p))
    ELSE QuoteArm(arm, parse_expr(p, arm.body))

parse_match_arm(p, arm) == QuoteArm(arm, parse_expr(p, arm.body))

\* quote! { #cur_if else { #then } } for an else-block (braces), and
\* quote! { #cur_if else #_if } for an else-if
QuoteElse(expr_if, t, e, braces) ==
    IF e.res.k # "Ok" THEN e
    ELSE Ret(Ok(TokIf(expr_if.cond, t.res.tok,
                      IF braces THEN TokBlock(<<e.res.tok>>) ELSE e.res.tok)),
             e.parser)

\* a slip: an else-if counts as a branch of its own
ParseElse_ElseIfCounts(expr_if, t) ==
    IF t.res.k # "Ok" THEN t
    ELSE IF expr_if.else_branch.k = "None"
    THEN Ret(Ok(TokIf(expr_if.cond, t.res.tok, None)), t.parser)
    ELSE IF expr_if.else_branch.k = "Block"
    THEN QuoteElse(expr_if, t, parse_then(t.parser, expr_if.else_branch.stmts), TRUE)
    ELSE IF expr_if.else_branch.k = "If"
    THEN QuoteElse(expr_if, t,
                   parse_expr_if([t.parser EXCEPT !.depth = @ + 1], expr_if.else_branch),
                   FALSE)
    ELSE Ret(Error(expr_if.else_branch, MsgElse), t.parser)

\* the else branch, once the then-block t is rewritten
ParseElse(expr_if, t) ==
    IF t.res.k # "Ok" THEN t
    ELSE IF expr_if.else_branch.k = "None"
    THEN Ret(Ok(TokIf(expr_if.cond, t.res.tok, None)), t.parser)
    ELSE IF expr_if.else_branch.k = "Block"
    THEN QuoteElse(expr_if, t, parse_then(t.parser, expr_if.else_branch.stmts), TRUE)
    ELSE IF expr_if.else_branch.k = "If"
    THEN QuoteElse(expr_if, t, parse_expr_if(t.parser, expr_if.else_branch), FALSE)
    ELSE Ret(Error(expr_if.else_branch, MsgElse), t.parser)

parse_expr_if(p, expr_if) == ParseElse(expr_if, parse_then(p, expr_if.then_branch))

\* a slip: an arm body of any kind is wrapped, as the last statement of a
\* block is
parse_expr_WrapAny(p, expr) ==
    IF expr.k = "If" THEN parse_expr_if(p, expr)
    ELSE IF expr.k = "Match" THEN parse_expr_match(p, expr)
    ELSE Ret(rewrite_method_name(p, expr), p)

parse_expr(p, expr) ==
    IF expr.k = "If" THEN parse_expr_if(p, expr)
    ELSE IF expr.k = "Match" THEN parse_expr_match(p, expr)
    ELSE IF expr.k \in {"Lit", "MethodCall"} THEN Ret(rewrite_method_name(p, expr), p)
    ELSE Ret(Error(expr, MsgUnsupported), p)

\* a slip: the initializer goes through parse_expr, as a tail does
parse_expr_at_first_AsTail(p, expr) == parse_expr(p, expr)

\* unlike parse_expr, this parses an `if` or a `match` expression only
parse_expr_at_first(p, expr) ==
    IF expr.k = "If" THEN parse_expr_if(p, expr)
    ELSE IF expr.k = "Match" THEN parse_expr_match(p, expr)
    ELSE Ret(Error(expr, MsgUnsupported), p)

\* `= <expr>`
parse_local_init(p, local_init) == parse_expr_at_first(p, local_init)

\* `x: Or2<i32, f32>`: the pattern's tokens and the annotated type
parse_pat_and_ret_type(pat) ==
    IF pat.k = "Type"
    THEN Ok([pat_tok |-> PatType(pat.pat, pat.ty), typ |-> pat.ty])
    ELSE Error(pat, MsgLetBinding)

\* no MacroParser has been made yet
NoParser == [depth |-> 0, typ |-> None]

\* a slip: the counter of the parser before is kept
NewParser_KeepDepth(typ) == [depth |-> parser.depth, typ |-> typ]

\* MacroParser { depth: 0, typ: typ }
NewParser(typ) == [depth |-> 0, typ |-> typ]

\* quote! { #let_tok #pat_tok #local_tok ; }, or panic!("{}", e)
QuoteLocal(pat_tok, local_tok) ==
    IF local_tok.res.k = "Ok"
    THEN Ret(Ok(TokLocal(pat_tok, local_tok.res.tok)), local_tok.parser)
    ELSE IF local_tok.res.k = "Err"
    THEN Ret(PanicWith(local_tok.res), local_tok.parser)
    ELSE local_tok

\* the initializer, with the parser p made for the annotated type
ParseInit(item, pat_tok, p) ==
    IF item.init.k = "None" THEN Ret(Panic(MsgUnreachable), p)
    ELSE QuoteLocal(pat_tok, parse_local_init(p, item.init))

\* the pattern and its type, then the parser
ParseLocal(item, pt, old) ==
    IF pt.k # "Ok" THEN Ret(PanicWith(pt), old)
    ELSE ParseInit(item, pt.tok.pat_tok, NewParser(pt.tok.typ))

\* the parser's entry point; `old` is the parser the invocation before left
parse(item, old) ==
    IF item.k = "Unparsable" THEN Ret(Panic(MsgSyn), old)
    ELSE IF item.k # "Local" THEN Ret(Panic(MsgNotLocal), old)
    ELSE ParseLocal(item, parse_pat_and_ret_type(item.pat), old)

(***************************************************************************)
(* The statements or_gen is applied to.                                     *)
(***************************************************************************)
SeqsUpTo(S, n) == UNION {[1..m -> S] : m \in 0..n}

\* Or3<i32, f32, String>, the annotation of the tests
MainType == TypePath(<<PathSegment("Or3", AngleBracketed(<<"i32", "f32", "String">>))>>)

OtherTypes ==
    { TypePath(<<PathSegment("Or2", AngleBracketed(<<"String", "f32">>))>>),
      TypePath(<<PathSegment("Or3", None)>>),
      TypePath(<<PathSegment("or_rs", None), PathSegment("enums", None),
                 PathSegment("Or3", AngleBracketed(<<"i32", "f32", "String">>))>>),
      TypeReference(TypePath(<<PathSegment("Or2", AngleBracketed(<<"i32", "f32">>))>>)) }

TypePool == {MainType} \cup OtherTypes

HelloToString == MethodCall(Lit("hello"), "to_string")

\* `a == i`, the condition of the i-th `if` of a chain
Cond(i) == ExprBinary(ExprPath("a"), "==", Lit(ToString(i)))

\* arms whose body is a tail expression
TerminalArms ==
    { Arm(PatLit("1"), None, Lit("33")),
      Arm(PatWild, None, HelloToString),
      Arm(PatIdent("n"), ExprBinary(ExprPath("n"), ">", Lit("0")), Lit("3.2")),
      Arm(PatWild, None, ExprPath("f")) }

\* if a == i { 3 } else if ... else { 3.0 }: n `if`s, every block one literal
RECURSIVE NestedIf(_, _)
NestedIf(i, n) ==
    ExprIf(Cond(i), <<StmtExpr(Lit("3"), FALSE)>>,
           IF i < n THEN NestedIf(i + 1, n)
           ELSE ExprBlock(<<StmtExpr(Lit("3.0"), FALSE)>>))

\* a match of m arms nested d deep: the body of its first arm is the next level
RECURSIVE NestedMatch(_, _)
NestedMatch(d, m) ==
    ExprMatch(ExprPath("v"),
        [j \in 1..m |->
            Arm(PatLit(ToString(j)), None,
                IF j = 1 /\ d > 1 THEN NestedMatch(d - 1, m)
                ELSE IF j = 1 THEN Lit("33") ELSE HelloToString)])

\* arms whose body is itself an `if` chain or a `match`
NestedArms ==
    { Arm(PatLit("2"), None, NestedIf(1, n)) : n \in 1..MaxChain } \cup
    { Arm(PatLit("3"), None, NestedMatch(d, MaxArms)) : d \in 1..MaxNest }

MatchInits ==
    { ExprMatch(ExprPath("a"), arms) :
        arms \in SeqsUpTo(TerminalArms \cup NestedArms, MaxArms) }

\* the blocks of the chains: one literal; a statement and a method call; no
\* statement at all; a binary expression
ChainBlocks ==
    { <<StmtExpr(Lit("3"), FALSE)>>,
      <<StmtExpr(Lit("11"), TRUE), StmtExpr(HelloToString, FALSE)>>,
      <<>>,
      <<StmtExpr(ExprBinary(ExprPath("f"), "+", ExprPath("x")), FALSE)>> }

\* the chain of the `if`s i..n over the then-blocks bs, closed by els
RECURSIVE Chain(_, _, _)
Chain(i, bs, els) ==
    ExprIf(Cond(i), bs[i], IF i < Len(bs) THEN Chain(i + 1, bs, els) ELSE els)

ChainInits ==
    { Chain(1, bs, els) :
        bs \in SeqsUpTo(ChainBlocks, MaxChain) \ {<<>>},
        els \in {None} \cup { ExprBlock(b) : b \in ChainBlocks } }

\* the statements of the blocks of macro_test.rs, and a `match` statement
StmtPool ==
    { StmtExpr(Lit("3"), FALSE),
      StmtExpr(Lit("11"), TRUE),
      StmtLocal(PatIdent("s"), Lit("33")),
      StmtExpr(ExprIf(Cond(3), <<>>, None), FALSE),
      StmtExpr(ExprMatch(ExprPath("a"), <<Arm(PatWild, None, Lit("33"))>>), FALSE),
      StmtExpr(HelloToString, FALSE) }

\* if a == 1 { <any block> } else { 3.0 }
BlockInits ==
    { ExprIf(Cond(1), b, ExprBlock(<<StmtExpr(Lit("3.0"), FALSE)>>)) :
        b \in SeqsUpTo(StmtPool, MaxStmts) }

\* initializers that are neither an `if` nor a `match`
PlainInits == { Lit("3"), HelloToString, ExprPath("f"), ExprBlock(<<StmtExpr(Lit("3"), FALSE)>>) }

\* a few initializers, for the annotations other than Or3<i32, f32, String>
FewInits ==
    { ExprMatch(ExprPath("a"), <<>>),
      ExprMatch(Lit("31"), <<Arm(PatLit("1"), None, Lit("33")), Arm(PatWild, None, HelloToString)>>),
      NestedIf(1, 1),
      ExprMatch(ExprPath("a"), <<Arm(PatWild, None, NestedIf(1, 1)), Arm(PatWild, None, Lit("33"))>>) }

\* if a == 1 {} else { 3.0 }: a chain whose then-block has no statement
EmptyThen == ExprIf(Cond(1), <<>>, ExprBlock(<<StmtExpr(Lit("3.0"), FALSE)>>))

\* matches in which more than one arm fails, or an arm fails before or after
\* an arm that is rewritten
FailingInits ==
    { ExprMatch(ExprPath("a"), <<Arm(PatLit("1"), None, ExprPath("f")),
                                 Arm(PatWild, None, EmptyThen)>>),
      ExprMatch(ExprPath("a"), <<Arm(PatLit("1"), None, EmptyThen),
                                 Arm(PatWild, None, ExprPath("f"))>>),
      ExprMatch(ExprPath("a"), <<Arm(PatLit("1"), None, Lit("33")),
                                 Arm(PatLit("2"), None, ExprPath("f")),
                                 Arm(PatWild, None, EmptyThen)>>),
      ExprMatch(ExprPath("a"), <<Arm(PatLit("1"), None, ExprPath("f")),
                                 Arm(PatWild, None, ExprBinary(ExprPath("f"), "+", ExprPath("x")))>>) }

Let(ty, init) == StmtLocal(PatType(PatIdent("x"), ty), init)

Inputs ==
    { Let(MainType, e) : e \in MatchInits \cup ChainInits \cup BlockInits \cup FailingInits } \cup
    { Let(ty, e) : ty \in OtherTypes, e \in FewInits } \cup
    { Let(ty, e) : ty \in TypePool, e \in PlainInits \cup {None} } \cup
    { StmtLocal(PatIdent("x"), e) : e \in FewInits \cup PlainInits \cup {None} } \cup
    { StmtExpr(NestedIf(1, 1), FALSE), StmtExpr(Lit("3"), TRUE), StmtItem("f"), Unparsable }

\* the statements of the runs of several invocations
SeqInputs ==
    { Let(MainType, e) : e \in FewInits } \cup
    { Let(MainType, Chain(1, <<<<StmtExpr(Lit("3"), FALSE)>>, <<>>>>, None)),
      Let(MainType, Lit("3")),
      Let(TypePath(<<PathSegment("Or3", None)>>), NestedIf(1, 1)),
      StmtLocal(PatIdent("x"), NestedIf(1, 1)),
      StmtItem("f") }

(***************************************************************************)
(* The state machine: one or_gen attribute is expanded at a time.           *)
(***************************************************************************)
Pending == [k |-> "Pending"]

Init ==
    /\ input \in Inputs
    /\ parser = NoParser
    /\ output = Pending
    /\ first = None
    /\ count = 0
    /\ value = None
    /\ made = None
    /\ call = None
    /\ stack = <<>>
    /\ visited = <<>>

\* #[or_gen]: MacroParser::parse on the item
or_gen ==
    /\ output = Pending
    /\ output' = parse(input, parser).res
    /\ parser' = parse(input, parser).parser
    /\ first' = IF first = None THEN [input |-> input, output |-> output'] ELSE first
    /\ count' = count + 1
    /\ UNCHANGED <<input, value, made, call, stack, visited>>

Next == or_gen

Spec == Init /\ [][Next]_vars

\* several attributes expanded one after the other
InitSeq ==
    /\ input \in SeqInputs
    /\ parser = NoParser
    /\ output = Pending
    /\ first = None
    /\ count = 0
    /\ value = None
    /\ made = None
    /\ call = None
    /\ stack = <<>>
    /\ visited = <<>>

\* the compiler reaches the next #[or_gen] statement
NextAttribute(s) ==
    /\ output # Pending
    /\ count < MaxCalls
    /\ input' = s
    /\ output' = Pending
    /\ UNCHANGED <<parser, first, count, value, made, call, stack, visited>>

NextSeq == or_gen \/ \E s \in SeqInputs : NextAttribute(s)

SpecSeq == InitSeq /\ [][NextSeq]_vars

(***************************************************************************)
(* The traversal of one invocation, step by step.  The recursive descent of *)
(* parse is unfolded into a stack of frames: every step takes the frame on  *)
(* top, does what the function of that frame does up to its next call, and  *)
(* pushes the frames of the calls.  The steps follow the control flow and   *)
(* the counter; the tokens are those of parse.                              *)
(***************************************************************************)
\* a frame: the node still to rewrite, the path of the scope around it, the
\* position n of its next block or arm, and the first Err of the arms so far
Frame(k, node, path, n, err) == [k |-> k, node |-> node, path |-> path, n |-> n, err |-> err]

\* the traversal after a step; res is None while it goes on
Walk(st, p, seen, res) == [stack |-> st, parser |-> p, visited |-> seen, res |-> res]

\* `?` on an Err returns from every function up to the closure of the
\* nearest match arm: its match goes on with the next arm and keeps the
\* first Err; outside any arm the Err is the result of parse_local_init
RECURSIVE Unwind(_, _, _, _)
Unwind(st, p, seen, e) ==
    IF Len(st) = 0 THEN Walk(<<>>, p, seen, e)
    ELSE IF st[1].k = "Arms"
    THEN Walk(<<[st[1] EXCEPT !.err = IF @ # None THEN @ ELSE e]>> \o Tail(st), p, seen, None)
    ELSE Unwind(Tail(st), p, seen, e)

\* a result comes back: a panic ends the invocation, an Err unwinds, Ok
\* returns to the caller
After(st, p, seen, res) ==
    IF res.k = "Panic" THEN Walk(<<>>, p, seen, res)
    ELSE IF res.k = "Err" THEN Unwind(st, p, seen, res)
    ELSE Walk(st, p, seen, None)

\* parse_expr_at_first on the initializer and parse_expr on an arm body: an
\* `if` calls parse_then and then looks at the else branch, a `match` maps
\* over its arms, anything else is wrapped or refused on the spot
WalkExpr(f, st, p, seen) ==
    IF f.node.k = "If"
    THEN Walk(<<Frame("Then", f.node.then_branch, f.path, 1, None),
                Frame("Else", f.node.else_branch, f.path, 2, None)>> \o st, p, seen, None)
    ELSE IF f.node.k = "Match"
    THEN Walk(<<Frame("Arms", f.node.arms, f.path, 1, None)>> \o st, p, seen, None)
    ELSE IF f.k = "Init" THEN After(st, p, seen, parse_expr_at_first(p, f.node).res)
    ELSE After(st, p, seen, parse_expr(p, f.node).res)

\* parse_then: the block is entered, the counter goes up, the last statement
\* is wrapped
WalkThen(f, st, p, seen) ==
    After(st, parse_then(p, f.node).parser, Append(seen, Append(f.path, f.n)),
          parse_then(p, f.node).res)

\* a slip: the else branch is not looked at
WalkElse_Skip(f, st, p, seen) == Walk(st, p, seen, None)

\* match expr_if.else_branch: none, an else-block, or an else-if
WalkElse(f, st, p, seen) ==
    IF f.node.k = "None" THEN Walk(st, p, seen, None)
    ELSE IF f.node.k = "Block"
    THEN Walk(<<Frame("Then", f.node.stmts, f.path, f.n, None)>> \o st, p, seen, None)
    ELSE IF f.node.k = "If"
    THEN Walk(<<Frame("Then", f.node.then_branch, f.path, f.n, None),
                Frame("Else", f.node.else_branch, f.path, f.n + 1, None)>> \o st, p, seen, None)
    ELSE After(st, p, seen, Error(f.node, MsgElse))

\* the closure over the arms: the next arm is begun, the counter goes up and
\* its body is rewritten; after the last arm the first Err, if any, returns
WalkArms(f, st, p, seen) ==
    IF Len(f.node) = 0
    THEN (IF f.err # None THEN After(st, p, seen, f.err) ELSE Walk(st, p, seen, None))
    ELSE Walk(<<Frame("Expr", f.node[1].body, Append(f.path, f.n), 1, None),
                Frame("Arms", Tail(f.node), f.path, f.n + 1, f.err)>> \o st,
              EnterArm(p), Append(seen, Append(f.path, f.n)), None)

\* the statement is a typed `let` with an initializer: the descent begins
Descends(item) ==
    /\ item.k = "Local"
    /\ parse_pat_and_ret_type(item.pat).k = "Ok"
    /\ item.init.k # "None"

\* the tokens of a traversal that came to its end
Emitted == [k |-> "Ok"]

\* what the invocation has produced after a step: a panic, the panic of an
\* Err that reached parse, the statement, or nothing yet
Outcome(w) ==
    IF w.res # None THEN (IF w.res.k = "Err" THEN PanicWith(w.res) ELSE w.res)
    ELSE IF w.stack = <<>> THEN Emitted
    ELSE Pending

\* the arms of the traversed matches: a literal, a path (refused), an `if`
\* chain and a match
WalkArmPool ==
    { Arm(PatLit("1"), None, Lit("33")),
      Arm(PatWild, None, ExprPath("f")),
      Arm(PatLit("2"), None, NestedIf(1, MaxChain)),
      Arm(PatLit("3"), None, NestedMatch(MaxNest, 2)) }

\* the statements traversed step by step
WalkInputs ==
    { Let(MainType, e) : e \in ChainInits \cup FailingInits \cup FewInits } \cup
    { Let(MainType, ExprMatch(ExprPath("a"), arms)) : arms \in SeqsUpTo(WalkArmPool, MaxArms) } \cup
    { Let(ty, e) : ty \in OtherTypes, e \in FewInits } \cup
    { Let(MainType, e) : e \in PlainInits \cup {None} } \cup
    { StmtLocal(PatIdent("x"), NestedIf(1, 1)), StmtItem("f"), Unparsable }

InitWalk ==
    /\ input \in WalkInputs
    /\ parser = NoParser
    /\ output = Pending
    /\ first = None
    /\ count = 0
    /\ value = None
    /\ made = None
    /\ call = None
    /\ stack = <<>>
    /\ visited = <<>>

\* MacroParser::parse up to parse_local_init: the panics of a statement that
\* is no typed `let` with an initializer, or the parser and the first frame
Begin ==
    /\ output = Pending
    /\ stack = <<>>
    /\ IF Descends(input)
         THEN /\ parser' = NewParser(parse_pat_and_ret_type(input.pat).tok.typ)
              /\ stack' = <<Frame("Init", input.init, <<>>, 1, None)>>
              /\ output' = Pending
         ELSE /\ parser' = parse(input, parser).parser
              /\ stack' = <<>>
              /\ output' = parse(input, parser).res
    /\ UNCHANGED <<input, first, count, value, made, call, visited>>

\* the traversal moves on to w
Moves(w) ==
    /\ stack' = w.stack
    /\ parser' = w.parser
    /\ visited' = w.visited
    /\ output' = Outcome(w)
    /\ UNCHANGED <<input, first, count, value, made, call>>

StepExpr ==
    /\ stack # <<>>
    /\ stack[1].k \in {"Init", "Expr"}
    /\ Moves(WalkExpr(stack[1], Tail(stack), parser, visited))

StepThen ==
    /\ stack # <<>>
    /\ stack[1].k = "Then"
    /\ Moves(WalkThen(stack[1], Tail(stack), parser, visited))

StepElse ==
    /\ stack # <<>>
    /\ stack[1].k = "Else"
    /\ Moves(WalkElse(stack[1], Tail(stack), parser, visited))

StepArms ==
    /\ stack # <<>>
    /\ stack[1].k = "Arms"
    /\ Moves(WalkArms(stack[1], Tail(stack), parser, visited))

NextWalk == Begin \/ StepExpr \/ StepThen \/ StepElse \/ StepArms

SpecWalk == InitWalk /\ [][NextWalk]_vars

\* the expansion runs as sequential code of the compiler: a step that can be
\* taken is taken
LiveWalk == SpecWalk /\ WF_vars(NextWalk)

(***************************************************************************)
(* The enums Or2 .. Or9.  generator.rs writes every method as one `match    *)
(* self`; an arm is a record of the variant its pattern names (0 for `_`)   *)
(* and of what its right-hand side does.                                    *)
(***************************************************************************)
GEN_COUNT == 9

\* the types the tests put into an Or, and the payloads of each; a payload
\* is written as a term: the literal it starts from, after the names of the
\* closures applied to it, the latest first
TypeNames == <<"i32", "f32", "String">>

Payloads(ty) ==
    IF ty = "i32" THEN {<<"3">>, <<"9">>}
    ELSE IF ty = "f32" THEN {<<"3.2">>}
    ELSE {<<"hello">>}

\* the type arguments of an OrN of the program: i32, f32, String, i32, ...
TypeArgs(n) == [i \in 1..n |-> TypeNames[((i - 1) % 3) + 1]]

\* closures handed to map_tx and fold: a name and the type they return
Closure(name, ret) == [name |-> name, ret |-> ret]

\* |t| t, into the type it comes from
Identity(T) == Closure("id", T)

\* the record of one call of a closure
Invoked(f, t) == [f |-> f, arg |-> t]

MapClosures == { Closure("sq", "String"), Closure("floor", "bool") }

\* |t1| .., |t2| .., ... one closure per variant, all into the type T
FoldClosures(n) == [i \in 1..n |-> Closure(ToString(i), "T")]

Some(t) == [k |-> "Some", v |-> t]

\* a value that was passed by value to as_tx, map_tx or fold
Moved == [k |-> "Moved"]

\* pub enum OrN<T1, .., TN> { T1(T1), .., TN(TN) }: the value OrN::Tx(t)
gen_enum_field(idx, types, x, t) ==
    [k |-> "Or", arity |-> idx, types |-> types, variant |-> x, val |-> t]

\* "T1, T2, T3", B, 1 -> B, T2, T3
gen_rewrited_generic_type(input_typ, g_idx, rewrited_type) ==
    [i \in DOMAIN input_typ |-> IF i = g_idx THEN rewrited_type ELSE input_typ[i]]

\* OrN::<..>::Tx handed over as a function, after the closure `after`:
\* |t| OrN::<..>::Tx(after(t))
Constructor(idx, types, x, after) ==
    [name |-> "T", ret |-> "Or", arity |-> idx, types |-> types, x |-> x, after |-> after]

\* f(t), what the closure returns: t itself, the Or value built from it, or
\* the closure's name in front of t
RECURSIVE Apply(_, _)
Apply(f, t) ==
    IF f.name = "id" THEN t
    ELSE IF f.name = "T" THEN gen_enum_field(f.arity, f.types, f.x, Apply(f.after, t))
    ELSE <<f.name>> \o t

\* Or3::T1, Or3::T2, Or3::T3 of the type of self
Constructors(self) ==
    [i \in 1..self.arity |->
        Constructor(self.arity, self.types, i, Identity(self.types[i]))]

\* TypeId::of::<T>(): one id per type, no two types with the same id
TypeIds == <<"i32", "f32", "String", "bool">>

\* a slip: every type has the same id
TypeId_Collide(T) == 1

TypeId(T) == CHOOSE id \in 1..Len(TypeIds) : TypeIds[id] = T

\* match self { .. }: the first arm whose pattern is the variant of self or `_`
MatchSelf(self, arms) ==
    arms[CHOOSE i \in 1..Len(arms) :
            /\ arms[i].variant \in {self.variant, 0}
            /\ \A j \in 1..(i - 1) : arms[j].variant \notin {self.variant, 0}]

\* a slip: the wildcard arm answers true as well
gen_method_is_tx_AlwaysTrue(x) ==
    <<[variant |-> x, body |-> TRUE], [variant |-> 0, body |-> TRUE]>>

\* Self::Tx(_) => true, _ => false
gen_method_is_tx(x) ==
    <<[variant |-> x, body |-> TRUE], [variant |-> 0, body |-> FALSE]>>

is_tx(self, x) == MatchSelf(self, gen_method_is_tx(x)).body

\* a slip: the wildcard arm comes first
gen_method_as_tx_WildFirst(x) ==
    <<[variant |-> 0, body |-> "None"], [variant |-> x, body |-> "Some"]>>

\* Self::Tx(tx) => Some(tx), _ => None
gen_method_as_tx(x) ==
    <<[variant |-> x, body |-> "Some"], [variant |-> 0, body |-> "None"]>>

as_tx(self, x) ==
    IF MatchSelf(self, gen_method_as_tx(x)).body = "Some" THEN Some(self.val) ELSE None

\* a slip: every arm applies f
gen_map_inner_match_arms_AllApply(g_idx, map_idx) ==
    [i \in 1..g_idx |-> [variant |-> i, ctor |-> i, apply |-> TRUE]]

\* Self::Ti(ti) => OrN::<.., B, ..>::Ti(f(ti)) for i = map_idx, and
\* Self::Ti(ti) => OrN::<.., B, ..>::Ti(ti) for the others
gen_map_inner_match_arms(g_idx, map_idx) ==
    [i \in 1..g_idx |-> [variant |-> i, ctor |-> i, apply |-> (i = map_idx)]]

\* what a method returns and the closure calls it made
Returns(ret, calls) == [ret |-> ret, calls |-> calls]

MapArm(self, x, f, arm) ==
    Returns(gen_enum_field(self.arity,
                           gen_rewrited_generic_type(self.types, x, f.ret),
                           arm.ctor,
                           IF arm.apply THEN Apply(f, self.val) ELSE self.val),
            IF arm.apply THEN <<Invoked(f, self.val)>> ELSE <<>>)

map_tx(self, x, f) ==
    MapArm(self, x, f, MatchSelf(self, gen_map_inner_match_arms(self.arity, x)))

\* a slip: the closures are taken in reverse order
gen_fold_match_arms_Reversed(g_idx) ==
    [i \in 1..g_idx |-> [variant |-> i, f |-> g_idx + 1 - i]]

\* Self::Ti(ti) => fi(ti)
gen_fold_match_arms(g_idx) == [i \in 1..g_idx |-> [variant |-> i, f |-> i]]

\* a slip: whatever the variant, the first closure is called
FoldArm_FirstClosure(self, fs, arm) ==
    Returns(Apply(fs[1], self.val), <<Invoked(fs[1], self.val)>>)

FoldArm(self, fs, arm) ==
    Returns(Apply(fs[arm.f], self.val), <<Invoked(fs[arm.f], self.val)>>)

fold(self, fs) == FoldArm(self, fs, MatchSelf(self, gen_fold_match_arms(self.arity)))

\* a slip: every arm compares with T1
gen_is_match_arm_FirstMember(g_idx) == [i \in 1..g_idx |-> [variant |-> i, member |-> 1]]

\* Self::Ti(_) => TypeId::of::<T>() == TypeId::of::<Ti>()
gen_is_match_arm(g_idx) == [i \in 1..g_idx |-> [variant |-> i, member |-> i]]

is_type(self, T) ==
    TypeId(T) = TypeId(self.types[MatchSelf(self, gen_is_match_arm(self.arity)).member])

(***************************************************************************)
(* What generator.rs writes into enums.rs: for every arity the enum, its    *)
(* impl block and the impl block with the 'static bounds.                   *)
(***************************************************************************)
\* format!("T{}", i), format!("F{}", i), format!("f{}", i)
Name(prefix, i) == prefix \o ToString(i)

\* gen `Or3` in `Or3<T1, T2, T3>` with idx = 3
gen_enum_name(idx) == Name("Or", idx)

\* gen `T1, T2, T3` in Or3<T1, T2, T3> with idx = 3
gen_enum_generics(idx) == [i \in 1..idx |-> Name("T", i)]

\* pub enum Or3<T1, T2, T3> { T1(T1), T2(T2), T3(T3), }
gen_enum_decl(idx) ==
    [name |-> gen_enum_name(idx),
     generics |-> gen_enum_generics(idx),
     variants |-> [i \in 1..idx |-> [variant |-> Name("T", i), of |-> Name("T", i)]]]

\* gen `f1: F1, f2: F2, f3: F3`
gen_fold_args(g_idx) == [i \in 1..g_idx |-> [arg |-> Name("f", i), ty |-> Name("F", i)]]

\* gen `F1: FnOnce(T1) -> T, F2: FnOnce(T2) -> T, F3: FnOnce(T3) -> T`
gen_fold_where(g_idx) ==
    [i \in 1..g_idx |-> [ty |-> Name("F", i), from |-> Name("T", i), to |-> "T"]]

\* (0..=g_idx) mapped to format!("F{}", i) and joined
gen_fold_generics_arg(g_idx) == [i \in 1..(g_idx + 1) |-> Name("F", i - 1)]

\* pub fn fold<T, {generics}>(self, {args}) -> T where {where} { match self { {arms} } }
gen_method_fold(idx) ==
    [generics |-> <<"T">> \o gen_fold_generics_arg(idx),
     args |-> gen_fold_args(idx),
     bounds |-> gen_fold_where(idx),
     arms |-> gen_fold_match_arms(idx)]

\* a slip: the last map_tx is not generated
gen_impl_block_NoLastMap(idx) ==
    [is_tx |-> [x \in 1..idx |-> gen_method_is_tx(x)],
     as_tx |-> [x \in 1..idx |-> gen_method_as_tx(x)],
     map_tx |-> [x \in 1..(idx - 1) |-> gen_map_inner_match_arms(idx, x)],
     fold |-> <<gen_method_fold(idx)>>]

\* impl<T1, T2, T3> Or3<T1, T2, T3> { is_t1 .. as_t1 .. map_t1 .. fold }
gen_impl_block(idx) ==
    [is_tx |-> [x \in 1..idx |-> gen_method_is_tx(x)],
     as_tx |-> [x \in 1..idx |-> gen_method_as_tx(x)],
     map_tx |-> [x \in 1..idx |-> gen_map_inner_match_arms(idx, x)],
     fold |-> <<gen_method_fold(idx)>>]

\* impl<T1, T2> Or2<T1, T2> where T1: 'static, T2: 'static { is_type }
gen_impl_block_with_trait_bound(idx) ==
    [bounds |-> [i \in 1..idx |-> [ty |-> Name("T", i), bound |-> "'static"]],
     is_type |-> gen_is_match_arm(idx)]

\* (2..=gen_count): the enum, the impl block and the bounded impl block of
\* every arity
gen_code_string(gen_count) ==
    [i \in 2..gen_count |->
        [decl |-> gen_enum_decl(i),
         impl |-> gen_impl_block(i),
         ext |-> gen_impl_block_with_trait_bound(i)]]

\* enums.rs, as generated
enums == gen_code_string(GEN_COUNT)

(***************************************************************************)
(* A program that uses the enums: it constructs a value and calls methods   *)
(* on it until the value is moved.                                          *)
(***************************************************************************)
Called(name, x, arg, self, r) ==
    [name |-> name, x |-> x, arg |-> arg, self |-> self, ret |-> r.ret, calls |-> r.calls]

\* no method has been called yet
NoCall == Called("", 0, None, Moved, Returns(None, <<>>))

InitOr ==
    /\ input = None
    /\ parser = NoParser
    /\ output = None
    /\ first = None
    /\ count = 0
    /\ value = Moved
    /\ made = None
    /\ call = NoCall
    /\ stack = <<>>
    /\ visited = <<>>

\* let v = OrN::<..>::Tx(t); the program constructs one value
Tx(n, x, t) ==
    /\ made = None
    /\ n \in DOMAIN enums
    /\ x \in DOMAIN enums[n].decl.variants
    /\ value' = gen_enum_field(n, TypeArgs(n), x, t)
    /\ made' = [variant |-> x, val |-> t, maps |-> 0]
    /\ call' = Called("Tx", x, t, value, Returns(value', <<>>))
    /\ UNCHANGED <<input, parser, output, first, count, stack, visited>>

\* v.is_tx()
IsTx(x) ==
    /\ value # Moved
    /\ x \in 1..value.arity
    /\ call' = Called("is_tx", x, None, value, Returns(is_tx(value, x), <<>>))
    /\ UNCHANGED <<input, parser, output, first, count, value, made, stack, visited>>

\* v.as_tx()
AsTx(x) ==
    /\ value # Moved
    /\ x \in 1..value.arity
    /\ call' = Called("as_tx", x, None, value, Returns(as_tx(value, x), <<>>))
    /\ value' = Moved
    /\ UNCHANGED <<input, parser, output, first, count, made, stack, visited>>

\* the closures the program folds with: one closure per variant into T, or
\* the constructors of the value's own type
FoldArgs ==
    IF value = Moved THEN {} ELSE {FoldClosures(value.arity), Constructors(value)}

\* let v = v.map_tx(f);
MapTx(x, f) ==
    /\ value # Moved
    /\ x \in 1..value.arity
    /\ made.maps < MaxMaps
    /\ call' = Called("map_tx", x, f, value, map_tx(value, x, f))
    /\ value' = call'.ret
    /\ made' = [made EXCEPT !.maps = @ + 1]
    /\ UNCHANGED <<input, parser, output, first, count, stack, visited>>

\* v.fold(f1, .., fN)
Fold(fs) ==
    /\ value # Moved
    /\ call' = Called("fold", 0, fs, value, fold(value, fs))
    /\ value' = Moved
    /\ UNCHANGED <<input, parser, output, first, count, made, stack, visited>>

\* v.is_type::<T>()
IsType(T) ==
    /\ value # Moved
    /\ call' = Called("is_type", 0, T, value, Returns(is_type(value, T), <<>>))
    /\ UNCHANGED <<input, parser, output, first, count, value, made, stack, visited>>

NextOr ==
    \/ \E n \in 2..GEN_COUNT : \E x \in 1..n : \E t \in Payloads(TypeArgs(n)[x]) : Tx(n, x, t)
    \/ \E x \in 1..GEN_COUNT : IsTx(x)
    \/ \E x \in 1..GEN_COUNT : AsTx(x)
    \/ \E x \in 1..GEN_COUNT : \E f \in MapClosures : MapTx(x, f)
    \/ \E fs \in FoldArgs : Fold(fs)
    \/ \E T \in {"i32", "f32", "String", "bool"} : IsType(T)

SpecOr == InitOr /\ [][NextOr]_vars

(***************************************************************************)
(* What the properties read off an input and off the emitted tokens.        *)
(***************************************************************************)
\* a typed let whose annotation is a single segment with generics: OrN<...>
IsOrType(ty) ==
    /\ ty.k = "Path"
    /\ Len(ty.segments) = 1
    /\ ty.segments[1].arguments.k = "AngleBracketed"

TypedLet(item) == item.k = "Local" /\ item.pat.k = "Type"

OrLet(item) == TypedLet(item) /\ IsOrType(item.pat.ty)

IsTerminal(expr) == expr.k \in {"Lit", "MethodCall"}

IsNested(expr) == expr.k \in {"If", "Match"}

\* the constructor calls of emitted tokens, in source order
RECURSIVE Calls(_)
RECURSIVE CallsOfSeq(_)
CallsOfSeq(toks) ==
    IF Len(toks) = 0 THEN <<>> ELSE Calls(toks[1]) \o CallsOfSeq(Tail(toks))

Calls(tok) ==
    IF tok.k = "Call" THEN <<tok>>
    ELSE IF tok.k = "Local" THEN Calls(tok.init)
    ELSE IF tok.k = "If" THEN Calls(tok.then_branch) \o Calls(tok.else_branch)
    \* the statements before the last one are the input's own
    ELSE IF tok.k = "Block" THEN Calls(tok.stmts[Len(tok.stmts)])
    ELSE IF tok.k = "Match" THEN CallsOfSeq([i \in 1..Len(tok.arms) |-> tok.arms[i].body])
    ELSE <<>>

\* the k of every emitted Tk, in source order
Labels(tok) == [i \in 1..Len(Calls(tok)) |-> Calls(tok)[i].method_name[2]]

\* the then-blocks and the else-block of an if chain, in source order
RECURSIVE InBlocks(_)
InBlocks(expr_if) ==
    <<expr_if.then_branch>> \o
    (IF expr_if.else_branch.k = "If" THEN InBlocks(expr_if.else_branch)
     ELSE IF expr_if.else_branch.k = "Block" THEN <<expr_if.else_branch.stmts>>
     ELSE <<>>)

\* the same blocks in the emitted chain (an else-block is emitted in two braces)
RECURSIVE OutBlocks(_)
OutBlocks(tok) ==
    <<tok.then_branch.stmts>> \o
    (IF tok.else_branch.k = "If" THEN OutBlocks(tok.else_branch)
     ELSE IF tok.else_branch.k = "Block" THEN <<tok.else_branch.stmts[1].stmts>>
     ELSE <<>>)

Last(seq) == seq[Len(seq)]

\* C1: a match whose arm bodies are all literals or method calls, under an
\* OrN<...> annotation, is rewritten, and the body of its i-th arm becomes
\* Ti(body), whatever the patterns of the arms are.
C1_ArmsLabelledByPosition ==
    (/\ output # Pending
     /\ OrLet(input)
     /\ input.init.k = "Match"
     /\ \A i \in 1..Len(input.init.arms) : IsTerminal(input.init.arms[i].body))
    => /\ output.k = "Ok"
       /\ output.tok.init.k = "Match"
       /\ Len(output.tok.init.arms) = Len(input.init.arms)
       /\ \A i \in 1..Len(input.init.arms) :
            /\ output.tok.init.arms[i].body.k = "Call"
            /\ output.tok.init.arms[i].body.method_name = <<"T", i>>
            /\ output.tok.init.arms[i].body.arg = input.init.arms[i].body

\* a rewritten match of MaxArms arms that starts with a wildcard arm and
\* has a guarded arm
C1_Witness ==
    /\ output.k = "Ok"
    /\ input.init.k = "Match"
    /\ Len(input.init.arms) = MaxArms
    /\ \A i \in 1..Len(input.init.arms) : IsTerminal(input.init.arms[i].body)
    /\ input.init.arms[1].pat = PatWild
    /\ \E i \in 1..Len(input.init.arms) : input.init.arms[i].guard # None

\* C2: in an if / else-if / else chain of n non-empty blocks under an OrN<...>
\* annotation, the last statement of the i-th block (then-blocks and the
\* final else-block in source order) becomes Ti(statement); an else-if takes
\* no index of its own.
C2_BlocksLabelledByPosition ==
    (/\ output # Pending
     /\ OrLet(input)
     /\ input.init.k = "If"
     /\ \A i \in 1..Len(InBlocks(input.init)) : Len(InBlocks(input.init)[i]) > 0)
    => /\ output.k = "Ok"
       /\ output.tok.init.k = "If"
       /\ Len(OutBlocks(output.tok.init)) = Len(InBlocks(input.init))
       /\ \A i \in 1..Len(InBlocks(input.init)) :
            /\ Last(OutBlocks(output.tok.init)[i]).k = "Call"
            /\ Last(OutBlocks(output.tok.init)[i]).method_name = <<"T", i>>
            /\ Last(OutBlocks(output.tok.init)[i]).arg = ToTokens(Last(InBlocks(input.init)[i]))

\* a rewritten chain of MaxChain `if`s and a final else
C2_Witness ==
    /\ output.k = "Ok"
    /\ input.init.k = "If"
    /\ Len(InBlocks(input.init)) = MaxChain + 1
    /\ Labels(output.tok)[MaxChain + 1] = MaxChain + 1

\* C3: in every successful rewrite the i-th wrapped tail, in source order, is
\* wrapped in Ti: T1, T2, ... with no index skipped.
C3_TailsNumberedInOrder ==
    output.k = "Ok" => Labels(output.tok) = [i \in 1..Len(Calls(output.tok)) |-> i]

\* the blocks entered and the arms begun while expr is rewritten
RECURSIVE Scopes(_)
RECURSIVE ScopesOfArms(_)
ScopesOfArms(arms) ==
    IF Len(arms) = 0 THEN 0
    ELSE 1 + Scopes(arms[1].body) + ScopesOfArms(Tail(arms))

Scopes(expr) ==
    IF expr.k = "If" THEN Len(InBlocks(expr))
    ELSE IF expr.k = "Match" THEN ScopesOfArms(expr.arms)
    ELSE 0

\* the index of every tail when each nesting level counts its own siblings
RECURSIVE SiblingLabels(_)
RECURSIVE SiblingLabelsOfArms(_, _)
SiblingLabelsOfArms(arms, j) ==
    IF j > Len(arms) THEN <<>>
    ELSE (IF IsNested(arms[j].body) THEN SiblingLabels(arms[j].body) ELSE <<j>>)
         \o SiblingLabelsOfArms(arms, j + 1)

SiblingLabels(expr) ==
    IF expr.k = "If" THEN [i \in 1..Len(InBlocks(expr)) |-> i]
    ELSE SiblingLabelsOfArms(expr.arms, 1)

\* the index of every tail when one counter, at `base` before expr, counts
\* every block entered and every arm begun and is never reset
RECURSIVE CounterLabels(_, _)
RECURSIVE CounterLabelsOfArms(_, _)
CounterLabelsOfArms(arms, base) ==
    IF Len(arms) = 0 THEN <<>>
    ELSE (IF IsNested(arms[1].body) THEN CounterLabels(arms[1].body, base + 1)
          ELSE <<base + 1>>)
         \o CounterLabelsOfArms(Tail(arms), base + 1 + Scopes(arms[1].body))

CounterLabels(expr, base) ==
    IF expr.k = "If" THEN [i \in 1..Len(InBlocks(expr)) |-> base + i]
    ELSE CounterLabelsOfArms(expr.arms, base)

GuardOf(arm_tok) == IF "guard" \in DOMAIN arm_tok THEN arm_tok.guard ELSE None

\* the conditions, scrutinees, patterns and guards of tok are those of expr
RECURSIVE SameFrame(_, _)
SameFrame(expr, tok) ==
    IF expr.k = "If"
    THEN /\ tok.k = "If"
         /\ tok.cond = expr.cond
         /\ expr.else_branch.k = "If" => SameFrame(expr.else_branch, tok.else_branch)
    ELSE IF expr.k = "Match"
    THEN /\ tok.k = "Match"
         /\ tok.expr = expr.expr
         /\ Len(tok.arms) = Len(expr.arms)
         /\ \A i \in 1..Len(expr.arms) :
              /\ tok.arms[i].pat = expr.arms[i].pat
              /\ GuardOf(tok.arms[i]) = expr.arms[i].guard
              /\ SameFrame(expr.arms[i].body, tok.arms[i].body)
    ELSE TRUE

\* C5: a successful rewrite changes nothing but the tails: the let pattern and
\* its annotation, every `if` condition, the match scrutinee, every arm
\* pattern and every arm guard are emitted as they were written.
C5_FrameKept ==
    output.k = "Ok" =>
        /\ output.tok.pat = input.pat
        /\ SameFrame(input.init, output.tok.init)

\* the blocks of every chain the rewrite walks through, in source order
RECURSIVE AllInBlocks(_)
RECURSIVE AllInBlocksOfArms(_)
AllInBlocksOfArms(arms) ==
    IF Len(arms) = 0 THEN <<>>
    ELSE AllInBlocks(arms[1].body) \o AllInBlocksOfArms(Tail(arms))

AllInBlocks(expr) ==
    IF expr.k = "If" THEN InBlocks(expr)
    ELSE IF expr.k = "Match" THEN AllInBlocksOfArms(expr.arms)
    ELSE <<>>

RECURSIVE AllOutBlocks(_)
RECURSIVE AllOutBlocksOfArms(_)
AllOutBlocksOfArms(arms_tok) ==
    IF Len(arms_tok) = 0 THEN <<>>
    ELSE AllOutBlocks(arms_tok[1].body) \o AllOutBlocksOfArms(Tail(arms_tok))

AllOutBlocks(tok) ==
    IF tok.k = "If" THEN OutBlocks(tok)
    ELSE IF tok.k = "Match" THEN AllOutBlocksOfArms(tok.arms)
    ELSE <<>>

\* C6: a rewritten block of s >= 1 statements is emitted as its first s-1
\* statements, unmodified and in order, followed by its last statement
\* wrapped in one constructor call; no other statement is wrapped.
C6_OnlyLastStatementWrapped ==
    output.k = "Ok" =>
        /\ Len(AllOutBlocks(output.tok.init)) = Len(AllInBlocks(input.init))
        /\ \A i \in 1..Len(AllInBlocks(input.init)) :
            /\ Len(AllInBlocks(input.init)[i]) >= 1
            /\ Len(AllOutBlocks(output.tok.init)[i]) = Len(AllInBlocks(input.init)[i])
            /\ \A n \in 1..(Len(AllInBlocks(input.init)[i]) - 1) :
                 AllOutBlocks(output.tok.init)[i][n] = AllInBlocks(input.init)[i][n]
            /\ Last(AllOutBlocks(output.tok.init)[i]).k = "Call"
            /\ Last(AllOutBlocks(output.tok.init)[i]).arg
                 = ToTokens(Last(AllInBlocks(input.init)[i]))

\* a rewritten block of MaxStmts statements that begins with a let binding
\* and an `if` expression and ends with a literal
C6_Witness ==
    /\ output.k = "Ok"
    /\ input.init.k = "If"
    /\ Len(input.init.then_branch) = MaxStmts
    /\ input.init.then_branch[1].k = "Local"
    /\ input.init.then_branch[2] = StmtExpr(ExprIf(Cond(3), <<>>, None), FALSE)
    /\ \A n \in 3..MaxStmts : input.init.then_branch[n] = StmtExpr(Lit("3"), FALSE)

\* C7: a typed let whose initializer is neither an `if` nor a `match` fails
\* with the unsupported-expression error, located at the initializer; the
\* initializer is never emitted, wrapped or not.
C7_PlainInitializerRejected ==
    (/\ output # Pending
     /\ TypedLet(input)
     /\ input.init.k \notin {"None", "If", "Match"})
    => /\ output.k = "Panic"
       /\ output.error = Error(input.init, MsgUnsupported)

\* a typed let initialized with a literal, and one with a method call, done
C7_Witness ==
    /\ output.k = "Panic"
    /\ OrLet(input)
    /\ input.init \in {Lit("3"), HelloToString}

\* the same tree with other tails: a literal becomes a method call on it and
\* a method call becomes its receiver
OtherTail(expr) ==
    IF expr.k = "Lit" THEN MethodCall(expr, "clone")
    ELSE IF expr.k = "MethodCall" THEN expr.receiver
    ELSE expr

OtherLast(stmts) ==
    IF Len(stmts) = 0 THEN stmts
    ELSE IF Last(stmts).k # "Expr" THEN stmts
    ELSE SubSeq(stmts, 1, Len(stmts) - 1)
         \o <<StmtExpr(OtherTail(Last(stmts).expr), Last(stmts).semi)>>

RECURSIVE OtherTails(_)
OtherTails(expr) ==
    IF expr.k = "If"
    THEN ExprIf(expr.cond, OtherLast(expr.then_branch), OtherTails(expr.else_branch))
    ELSE IF expr.k = "Block" THEN ExprBlock(OtherLast(expr.stmts))
    ELSE IF expr.k = "Match"
    THEN ExprMatch(expr.expr,
            [i \in 1..Len(expr.arms) |->
                Arm(expr.arms[i].pat, expr.arms[i].guard, OtherTails(expr.arms[i].body))])
    ELSE OtherTail(expr)

\* the input with the same shape and annotation and other tails
Retailed(item) == StmtLocal(item.pat, OtherTails(item.init))

\* C8: labelling is blind to the tails: two accepted inputs of the same tree
\* shape and annotation that differ only in their tail expressions get the
\* same constructor index at every corresponding tail.
C8_LabelsIgnoreTails ==
    (/\ output.k = "Ok"
     /\ parse(Retailed(input), NoParser).res.k = "Ok")
    => Labels(parse(Retailed(input), NoParser).res.tok) = Labels(output.tok)

\* a rewritten match with a nested body whose tails all differ from those of
\* the input it is compared with, which is rewritten too
C8_Witness ==
    /\ output.k = "Ok"
    /\ input.init.k = "Match"
    /\ \E i \in 1..Len(input.init.arms) : IsNested(input.init.arms[i].body)
    /\ parse(Retailed(input), NoParser).res.k = "Ok"
    /\ Len(Calls(output.tok)) >= 3
    /\ \A i \in 1..Len(Calls(output.tok)) :
        Calls(parse(Retailed(input), NoParser).res.tok)[i].arg # Calls(output.tok)[i].arg

\* C9: parse keeps nothing from one invocation to the next: whenever the
\* statement of the first invocation is rewritten again, after any other
\* rewrites, successful or failed, the outcome is that of the first time.
C9_SameInputSameOutcome ==
    (/\ output # Pending
     /\ first # None
     /\ input = first.input)
    => output = first.output

\* the statement of the first invocation rewritten again as the last of
\* MaxCalls invocations, with labels above T1, after a parser was left with a
\* non-zero counter
C9_Witness ==
    /\ output.k = "Ok"
    /\ count = MaxCalls
    /\ input = first.input
    /\ Len(Calls(output.tok)) >= 2

\* C10: all constructor calls of one rewrite name the same type: the union
\* name and the generic argument list are those of the annotation, and the
\* annotation itself is emitted unchanged.
C10_TargetTypeFixed ==
    output.k = "Ok" =>
        /\ output.tok.pat = input.pat
        /\ \A i \in 1..Len(Calls(output.tok)) :
            /\ Calls(output.tok)[i].or_type_name = <<input.pat.ty.segments[1].ident>>
            /\ Calls(output.tok)[i].typ_tok = input.pat.ty.segments[1].arguments

\* a rewrite under Or2<String, f32> that emitted two constructor calls
C10_Witness ==
    /\ output.k = "Ok"
    /\ input.pat.ty.segments[1].ident = "Or2"
    /\ Len(Calls(output.tok)) >= 2

\* a failure as parse surfaces it: an Err is displayed by panic!, a panic is
\* the panic it was
Surfaced(failure) == IF failure.k = "Err" THEN PanicWith(failure) ELSE failure

NotOk(res) == IF res.k = "Ok" THEN None ELSE res

OrElse(failure, later) == IF failure # None THEN failure ELSE later

\* the first step that fails when expr is walked in traversal order: the
\* then-block before the else-branch, the arms in source order; None when no
\* step fails
RECURSIVE FirstFailure(_, _)
RECURSIVE FirstFailureOfArms(_, _)
FirstFailureOfArms(p, arms) ==
    IF Len(arms) = 0 THEN None
    ELSE OrElse(FirstFailure(p, arms[1].body), FirstFailureOfArms(p, Tail(arms)))

FirstFailure(p, expr) ==
    IF expr.k = "If"
    THEN OrElse(NotOk(parse_then(p, expr.then_branch).res),
                IF expr.else_branch.k = "If" THEN FirstFailure(p, expr.else_branch)
                ELSE IF expr.else_branch.k = "Block"
                THEN NotOk(parse_then(p, expr.else_branch.stmts).res)
                ELSE None)
    ELSE IF expr.k = "Match" THEN FirstFailureOfArms(p, expr.arms)
    ELSE IF IsTerminal(expr) THEN NotOk(rewrite_method_name(p, expr))
    ELSE Error(expr, MsgUnsupported)

\* C11: a rewrite is all-or-nothing, and the failure parse reports is the
\* first one in traversal order (the then-block before the else-branch, the
\* match arms in source order): when a step of the traversal of an `if` or
\* `match` initializer fails, no statement is emitted and the first failing
\* step is the one reported.
C11_FirstFailureReported ==
    (/\ output # Pending
     /\ TypedLet(input)
     /\ input.init.k \in {"If", "Match"}
     /\ FirstFailure(NewParser(input.pat.ty), input.init) # None)
    => output = Surfaced(FirstFailure(NewParser(input.pat.ty), input.init))

\* a statement syn parses that has not the shape
\* `let <pattern>: <type> = <initializer>;`
WrongShape(item) ==
    IF item.k = "Unparsable" THEN FALSE
    ELSE IF item.k # "Local" THEN TRUE
    ELSE item.init.k = "None" \/ item.pat.k # "Type"

\* C12: a statement that is not a `let`, a `let` without initializer and a
\* `let` whose pattern has no type annotation all end in a structured error,
\* an Error value with a message and a span, and in no output; none of them
\* ends in a bare panic or in unreachable!().
C12_ShapeErrorsStructured ==
    (output # Pending /\ WrongShape(input))
    => /\ output.k = "Panic"
       /\ output.error # None
       /\ output.error.k = "Err"

\* a path type that carries an angle-bracketed generic argument list
HasGenerics(ty) ==
    /\ ty.k = "Path"
    /\ \E i \in 1..Len(ty.segments) : ty.segments[i].arguments.k = "AngleBracketed"

\* C13: under an annotation that is not a path type with generic arguments,
\* every `if` chain and every `match`, a match without arms included, fails
\* with the type-annotation error and nothing is emitted.
C13_BadAnnotationRejected ==
    (/\ output # Pending
     /\ TypedLet(input)
     /\ input.init.k \in {"If", "Match"}
     /\ ~HasGenerics(input.pat.ty))
    => /\ output.k = "Panic"
       /\ output.error.k = "Err"
       /\ output.error.message = MsgTypeDecl

\* a match arm the traversal reaches whose body is of no supported kind
RECURSIVE HasUnsupportedArm(_)
HasUnsupportedArm(expr) ==
    /\ expr.k = "Match"
    /\ \E i \in 1..Len(expr.arms) :
        \/ ~IsTerminal(expr.arms[i].body) /\ ~IsNested(expr.arms[i].body)
        \/ HasUnsupportedArm(expr.arms[i].body)

\* C14 as claimed: a tail that is neither a literal nor a method call is never
\* wrapped and emitted, be it a match arm body or the trailing statement of a
\* then- or else-block.
C14_UnsupportedTailRejected ==
    output.k = "Ok" =>
        \A i \in 1..Len(Calls(output.tok)) : IsTerminal(Calls(output.tok)[i].arg)

\* C14 as amended: only match arm bodies are checked.  An arm body that is
\* neither a literal, a method call, an `if` nor a `match` makes the rewrite
\* fail and nothing is emitted (under an OrN<...> annotation the failure is
\* the unsupported-expression error, or the panic of an empty block).  The
\* trailing statement of a then- or else-block is wrapped whatever its kind
\* is, and emitted inside the constructor call.
C14_OnlyArmBodiesChecked ==
    /\ (/\ output # Pending
        /\ TypedLet(input)
        /\ HasUnsupportedArm(input.init))
       => /\ output.k = "Panic"
          /\ OrLet(input) => output.message \in {MsgUnsupported, MsgOverflow}
    /\ output.k = "Ok" =>
         \A i \in 1..Len(AllInBlocks(input.init)) :
            ~IsTerminal(ToTokens(Last(AllInBlocks(input.init)[i]))) =>
                /\ Last(AllOutBlocks(output.tok.init)[i]).k = "Call"
                /\ Last(AllOutBlocks(output.tok.init)[i]).arg
                     = ToTokens(Last(AllInBlocks(input.init)[i]))

\* a rewritten chain in which a block that ends in a binary expression is
\* emitted with that expression wrapped
C14_Witness ==
    /\ output.k = "Ok"
    /\ input.init.k = "If"
    /\ \E i \in 1..Len(Calls(output.tok)) : Calls(output.tok)[i].arg.k = "Binary"

\* the else branch of the last `if` of a chain
RECURSIVE LastElse(_)
LastElse(expr_if) ==
    IF expr_if.else_branch.k = "If" THEN LastElse(expr_if.else_branch)
    ELSE expr_if.else_branch

\* C15: an `if` chain whose last `if` has no else branch is rejected: the
\* rewrite fails and the chain is not emitted with only its then-blocks
\* wrapped.
C15_NoElseRejected ==
    (/\ output # Pending
     /\ TypedLet(input)
     /\ input.init.k = "If"
     /\ LastElse(input.init) = None)
    => output.k = "Panic"

\* C16: downcast exclusivity.  For every arity N in 2..9, every k and j in
\* 1..N and every payload v, as_tj on the value built by Tk(v) returns
\* Some(v) if j = k and None if j # k.
C16_DowncastExclusive ==
    (call.name = "as_tx" /\ made.maps = 0)
    => /\ call.self = gen_enum_field(call.self.arity, TypeArgs(call.self.arity),
                                     made.variant, made.val)
       /\ call.ret = IF call.x = made.variant THEN Some(made.val) ELSE None

\* as_t9 on an Or9 built by T9 gave the payload back
C16_Witness ==
    /\ call.name = "as_tx"
    /\ made.maps = 0
    /\ call.self.arity = GEN_COUNT
    /\ call.x = GEN_COUNT
    /\ call.ret = Some(made.val)

\* C17: fold totality.  For every arity N in 2..9, every k in 1..N and every
\* payload v, fold(f1, .., fN) on Tk(v) invokes fk exactly once, with v,
\* invokes no other closure and returns fk(v).
C17_FoldCallsTheOneClosure ==
    call.name = "fold"
    => /\ made.maps = 0 => call.self.val = made.val
       /\ call.calls = <<Invoked(call.arg[made.variant], call.self.val)>>
       /\ call.ret = Apply(call.arg[made.variant], call.self.val)

\* fold on an Or9 built by T5, not mapped, called the fifth closure
C17_Witness ==
    /\ call.name = "fold"
    /\ made.maps = 0
    /\ call.self.arity = GEN_COUNT
    /\ made.variant = 5
    /\ call.calls[1].f = Closure("5", "T")

\* C18: for every arity and every value, is_tk() is true iff the value was
\* built by Tk, so exactly one of is_t1 .. is_tN is true, and is_tk() is
\* true iff as_tk() is Some.
C18_ExactlyOneVariant ==
    /\ call.name = "is_tx" => call.ret = (call.x = made.variant)
    /\ value.k = "Or" =>
        /\ \A x \in 1..value.arity : is_tx(value, x) = (x = made.variant)
        /\ Cardinality({x \in 1..value.arity : is_tx(value, x)}) = 1
        /\ \A x \in 1..value.arity : is_tx(value, x) = (as_tx(value, x).k = "Some")

\* is_tx answered true on an Or9 that had been mapped before, and false on it
\* for another variant is one call away
C18_Witness ==
    /\ call.name = "is_tx"
    /\ call.ret = TRUE
    /\ call.self.arity = GEN_COUNT
    /\ made.maps >= 1

\* C19: map_tk(f) on Tj(v) returns a value in the same slot j: with payload
\* f(v) and f called exactly once when j = k, with payload v and f never
\* called when j # k.  So after any sequence of maps the active slot is the
\* one the value was constructed in, and every as_tj after a map on another
\* slot yields what it would have yielded before.
C19_MapKeepsSlotAndOthers ==
    /\ call.name = "map_tx" =>
        /\ call.ret.variant = call.self.variant
        /\ call.ret.arity = call.self.arity
        /\ call.x = call.self.variant =>
            /\ call.ret.val = Apply(call.arg, call.self.val)
            /\ call.calls = <<Invoked(call.arg, call.self.val)>>
        /\ call.x # call.self.variant =>
            /\ call.ret.val = call.self.val
            /\ call.calls = <<>>
            /\ \A j \in 1..call.self.arity : as_tx(call.ret, j) = as_tx(call.self, j)
    /\ value.k = "Or" => value.variant = made.variant

\* the last of MaxMaps maps: on another slot than the active one, of a value
\* whose payload an earlier map had changed
C19_Witness ==
    /\ call.name = "map_tx"
    /\ made.maps = MaxMaps
    /\ call.x # call.self.variant
    /\ call.self.val # made.val
    /\ call.ret.val = call.self.val

\* C20: is_type::<T>() on a value in slot k is true iff T is the declared
\* member type Tk of that slot; the answer does not depend on the payload,
\* and the call leaves the value as it was.
C20_IsTypeComparesDeclaredType ==
    call.name = "is_type"
    => /\ call.ret = (call.arg = call.self.types[call.self.variant])
       /\ \A t \in {<<"3">>, <<"hello">>, Apply(Closure("sq", "String"), <<"3">>)} :
            is_type([call.self EXCEPT !.val = t], call.arg) = call.ret
       /\ value = call.self

\* is_type::<bool>() answered true: the active slot had been mapped into bool
C20_Witness ==
    /\ call.name = "is_type"
    /\ call.arg = "bool"
    /\ call.ret = TRUE
    /\ call.self.arity = GEN_COUNT

\* C21 as claimed: when is_type::<T>() is true and T is the declared type of
\* slot 1, as_t1() is Some, also when several slots are declared with the
\* same type.
C21_IsTypeImpliesAsT1 ==
    (/\ call.name = "is_type"
     /\ call.ret = TRUE
     /\ call.arg = call.self.types[1])
    => as_tx(call.self, 1).k = "Some"

\* C21 as amended: when is_type::<T>() is true and T is the declared type of
\* slot 1, the active slot is one of the slots declared with type T; as_t1()
\* is Some when no other slot is declared with that type, and where it is
\* None the value is in another slot of the same declared type.
C21_IsTypeImpliesSomeSlotOfT ==
    (/\ call.name = "is_type"
     /\ call.ret = TRUE
     /\ call.arg = call.self.types[1])
    => /\ call.self.types[call.self.variant] = call.arg
       /\ (\A j \in 2..call.self.arity : call.self.types[j] # call.self.types[1])
            => as_tx(call.self, 1) = Some(call.self.val)
       /\ as_tx(call.self, 1) = None
            => /\ call.self.variant # 1
               /\ call.self.types[call.self.variant] = call.self.types[1]

\* is_type answered true for the type of slot 1 on a value that is in
\* another slot declared with the same type
C21_Witness ==
    /\ call.name = "is_type"
    /\ call.ret = TRUE
    /\ call.arg = call.self.types[1]
    /\ call.self.variant # 1
    /\ as_tx(call.self, 1) = None

\* the generated code of arity n: the enum OrN with the variants T1..TN, and
\* in its impl block is_t1..is_tN, as_t1..as_tN, map_t1..map_tN and one fold
\* with the arguments f1..fN
Exhaustive(n) ==
    /\ enums[n].decl.name = Name("Or", n)
    /\ enums[n].decl.variants
         = [i \in 1..n |-> [variant |-> Name("T", i), of |-> Name("T", i)]]
    /\ DOMAIN enums[n].impl.is_tx = 1..n
    /\ DOMAIN enums[n].impl.as_tx = 1..n
    /\ DOMAIN enums[n].impl.map_tx = 1..n
    /\ Len(enums[n].impl.fold) = 1
    /\ enums[n].impl.fold[1].args
         = [i \in 1..n |-> [arg |-> Name("f", i), ty |-> Name("F", i)]]
    /\ \A x \in 1..n :
        /\ enums[n].impl.is_tx[x][1].variant = x
        /\ enums[n].impl.as_tx[x][1].variant = x
        /\ \E i \in 1..n : enums[n].impl.map_tx[x][i].apply

AllExhaustive == \A n \in 2..9 : Exhaustive(n)

\* C22: arity exhaustiveness.  The generated arities are 2..9 and no other,
\* and for every N of them OrN has exactly the N constructors T1..TN, the N
\* predicates is_t1..is_tN, the N downcasts as_t1..as_tN, the N transforms
\* map_t1..map_tN and one fold that takes exactly N function arguments; the
\* values of the program are of these arities and in these variants.
C22_ArityExhaustive ==
    /\ DOMAIN enums = 2..9
    /\ AllExhaustive
    /\ value.k = "Or" =>
        /\ value.arity \in 2..9
        /\ value.variant \in 1..value.arity
    /\ call.name \in {"is_tx", "as_tx", "map_tx"} => call.x \in 1..call.self.arity

\* the last transform of the largest arity was called: map_t9 on an Or9
C22_Witness ==
    /\ call.name = "map_tx"
    /\ call.self.arity = 9
    /\ call.x = 9
    /\ call.self.variant = 9

\* C25: for every arity N the generic parameters of fold are the result type
\* T and the N function types F1..FN, each with its argument fk: Fk and its
\* bound Fk: FnOnce(Tk) -> T; no function type parameter is declared without
\* argument and bound.
C25_FoldGenerics ==
    value.k = "Or" =>
        /\ enums[value.arity].impl.fold[1].generics
             = <<"T">> \o [i \in 1..value.arity |-> Name("F", i)]
        /\ \A g \in 2..Len(enums[value.arity].impl.fold[1].generics) :
            /\ \E i \in 1..value.arity :
                 enums[value.arity].impl.fold[1].args[i].ty
                    = enums[value.arity].impl.fold[1].generics[g]
            /\ \E i \in 1..value.arity :
                 enums[value.arity].impl.fold[1].bounds[i].ty
                    = enums[value.arity].impl.fold[1].generics[g]

\* C23: the counter is monotonic.  It starts at 0, goes up by one for every
\* then/else block entered and every match arm begun and never goes down or
\* back: after a successful rewrite it is the number of blocks entered plus
\* the number of arms begun, the indices of the wrapped tails are strictly
\* increasing in source order (so pairwise distinct) and lie between 1 and
\* the final counter; a rewrite that fails stops at a counter no larger.
C23_CounterMonotonic ==
    /\ (TypedLet(input) /\ output.k = "Ok") =>
        /\ parser.depth = Scopes(input.init)
        /\ \A i \in 1..Len(Labels(output.tok)) :
            /\ Labels(output.tok)[i] \in 1..parser.depth
            /\ \A j \in 1..(i - 1) : Labels(output.tok)[j] < Labels(output.tok)[i]
    /\ (TypedLet(input) /\ output.k = "Panic") =>
        parser.depth \in 0..Scopes(input.init)

\* a rewritten match with an `if` chain nested in an arm that is not the
\* last: blocks and arms both count, and tails follow the nested chain
C23_Witness ==
    /\ output.k = "Ok"
    /\ input.init.k = "Match"
    /\ Len(input.init.arms) = MaxArms
    /\ input.init.arms[1].body.k = "If"
    /\ Len(InBlocks(input.init.arms[1].body)) > 1
    /\ IsTerminal(input.init.arms[MaxArms].body)
    /\ parser.depth > MaxArms + 1
    /\ Len(Labels(output.tok)) > 2

\* C24: an `if` chain under an OrN<...> annotation with a then- or else-block
\* that has no statement is handled as an unsupported shape: the outcome is a
\* located error or a rewritten statement, never the panic of the subtraction
\* stmts.len() - 1 in parse_stmts.
C24_EmptyBlockHandled ==
    (/\ OrLet(input)
     /\ input.init.k = "If"
     /\ \E i \in 1..Len(InBlocks(input.init)) : Len(InBlocks(input.init)[i]) = 0)
        => /\ output # Panic(MsgOverflow)
           /\ output.k = "Panic" => output.error # None

\* the paths of the blocks and arms of expr, in source order
RECURSIVE ScopePaths(_, _)
RECURSIVE ScopePathsOfArms(_, _, _)
ScopePathsOfArms(arms, path, j) ==
    IF j > Len(arms) THEN <<>>
    ELSE <<Append(path, j)>> \o ScopePaths(arms[j].body, Append(path, j))
         \o ScopePathsOfArms(arms, path, j + 1)

ScopePaths(expr, path) ==
    IF expr.k = "If" THEN [i \in 1..Len(InBlocks(expr)) |-> Append(path, i)]
    ELSE IF expr.k = "Match" THEN ScopePathsOfArms(expr.arms, path, 1)
    ELSE <<>>

\* where path stands in seq
Position(path, seq) == CHOOSE i \in 1..Len(seq) : seq[i] = path

\* C26 as claimed: every invocation comes to a final outcome, and by then the
\* traversal has visited each then/else block of the chain and each match
\* arm exactly once.
C26_EveryScopeVisitedOnce ==
    /\ <>(output # Pending)
    /\ []((output # Pending /\ Descends(input))
            => visited = ScopePaths(input.init, <<>>))

\* C26 as amended: every invocation comes to a final outcome, the emitted
\* statement or a panic, the same as parse gives in one piece.  The
\* traversal visits blocks and arms of the statement only, in source order
\* and none of them twice; it has visited every one of them exactly once
\* when the statement is emitted, and may have left out the blocks after a
\* block that failed when the outcome is a panic.
C26_TerminatesVisitingAtMostOnce ==
    /\ <>(output # Pending)
    /\ [](Descends(input) =>
            /\ \A i \in 1..Len(visited) :
                /\ \E j \in 1..Len(ScopePaths(input.init, <<>>)) :
                     ScopePaths(input.init, <<>>)[j] = visited[i]
                /\ \A j \in 1..(i - 1) :
                     Position(visited[j], ScopePaths(input.init, <<>>))
                        < Position(visited[i], ScopePaths(input.init, <<>>))
            /\ output = Emitted => visited = ScopePaths(input.init, <<>>))
    /\ [](output # Pending =>
            /\ stack = <<>>
            /\ output.k = parse(input, NoParser).res.k
            /\ output.k = "Panic" => output = parse(input, NoParser).res
            /\ parser = parse(input, NoParser).parser)

\* a traversal that came to its end through a match with an `if` chain in
\* an arm
C26_Witness ==
    /\ output = Emitted
    /\ stack = <<>>
    /\ input.init.k = "Match"
    /\ Len(visited) > MaxArms + 1
    /\ \E i \in 1..Len(visited) : Len(visited[i]) = 2

\* the branches of expr that end in a tail: the blocks of a chain, and the
\* arms of a match, those of the nested bodies in place of their arm
RECURSIVE Leaves(_)
RECURSIVE LeavesOfArms(_)
LeavesOfArms(arms) ==
    IF Len(arms) = 0 THEN 0
    ELSE (IF IsNested(arms[1].body) THEN Leaves(arms[1].body) ELSE 1)
         + LeavesOfArms(Tail(arms))

Leaves(expr) ==
    IF expr.k = "If" THEN Len(InBlocks(expr))
    ELSE IF expr.k = "Match" THEN LeavesOfArms(expr.arms)
    ELSE 0

\* tok is expr with one wrapper around the last statement of every block and
\* around the body of every leaf arm, and none anywhere else: the wrapped
\* statement and the statements before it are the input's own, and the body
\* of an arm that is an `if` or a `match` is rewritten inside and is no call
RECURSIVE WrappedOnce(_, _)
WrappedOnce(expr, tok) ==
    IF expr.k = "If"
    THEN /\ tok.k = "If"
         /\ Len(OutBlocks(tok)) = Len(InBlocks(expr))
         /\ \A i \in 1..Len(InBlocks(expr)) :
             /\ Len(OutBlocks(tok)[i]) = Len(InBlocks(expr)[i])
             /\ Last(OutBlocks(tok)[i]).k = "Call"
             /\ Last(OutBlocks(tok)[i]).arg = ToTokens(Last(InBlocks(expr)[i]))
             /\ \A n \in 1..(Len(InBlocks(expr)[i]) - 1) :
                  OutBlocks(tok)[i][n] = InBlocks(expr)[i][n]
    ELSE /\ tok.k = "Match"
         /\ Len(tok.arms) = Len(expr.arms)
         /\ \A j \in 1..Len(expr.arms) :
             IF IsNested(expr.arms[j].body)
             THEN /\ tok.arms[j].body.k = expr.arms[j].body.k
                  /\ WrappedOnce(expr.arms[j].body, tok.arms[j].body)
             ELSE /\ tok.arms[j].body.k = "Call"
                  /\ tok.arms[j].body.arg = expr.arms[j].body

\* C27: in every successful rewrite each branch contributes exactly one
\* constructor wrapper.  The last statement of every then/else block and the
\* body of every leaf arm is wrapped once and no tail twice; an `if` or
\* `match` that is the last statement of a block is wrapped as a whole, its
\* inner branches untouched; an `if` or `match` that is the body of an arm is
\* recursed into and not itself wrapped.
C27_OneWrapperPerBranch ==
    output.k = "Ok" =>
        /\ WrappedOnce(input.init, output.tok.init)
        /\ Len(Calls(output.tok)) = Leaves(input.init)

\* a rewritten chain whose then-block ends in an `if`, which is wrapped as a
\* whole
C27_Witness ==
    /\ output.k = "Ok"
    /\ input.init.k = "If"
    /\ Len(input.init.then_branch) > 1
    /\ Last(input.init.then_branch) = StmtExpr(ExprIf(Cond(3), <<>>, None), FALSE)
    /\ Calls(output.tok)[1].arg = ExprIf(Cond(3), <<>>, None)

\* the number of generic arguments of an annotation OrN<...>
Arity(ty) ==
    Len(ty.segments[CHOOSE i \in 1..Len(ty.segments) :
                        ty.segments[i].arguments.k = "AngleBracketed"].arguments.args)

\* C28: every constructor index k of a successful rewrite lies in 1..N, N the
\* number of generic arguments of the annotated union type; a chain or match
\* with more branches than that is not emitted with a constructor Tk, k > N.
C28_IndexWithinArity ==
    (output.k = "Ok" /\ HasGenerics(input.pat.ty)) =>
        \A i \in 1..Len(Labels(output.tok)) :
            Labels(output.tok)[i] \in 1..Arity(input.pat.ty)

\* a path of several segments whose last segment, and no other, carries the
\* generic arguments: or_rs::enums::Or3<A, B, C>
Qualified(ty) ==
    /\ ty.k = "Path"
    /\ Len(ty.segments) > 1
    /\ Last(ty.segments).arguments.k = "AngleBracketed"
    /\ \A i \in 1..(Len(ty.segments) - 1) : ty.segments[i].arguments.k = "None"

\* C30: a type annotation written as a multi-segment path whose last segment
\* carries the generic arguments is accepted: an `if` chain or `match` that
\* is rewritten under Or3<i32, f32, String> is rewritten under it as well,
\* and every constructor call is written with the full path and the
\* argument list of the annotation.
C30_QualifiedPathAccepted ==
    (/\ output # Pending
     /\ TypedLet(input)
     /\ Qualified(input.pat.ty)
     /\ IsNested(input.init)
     /\ parse(Let(MainType, input.init), NoParser).res.k = "Ok")
        => /\ output.k = "Ok"
           /\ \A i \in 1..Len(Calls(output.tok)) :
               /\ Calls(output.tok)[i].typ_tok = Last(input.pat.ty.segments).arguments
               /\ Calls(output.tok)[i].or_type_name = get_or_type_name(parser).tok

\* T1, .., Tk after f, .., TN: the constructors of the type self has after
\* map_tk(f), with f applied first in slot k
Composed(self, k, f) ==
    [i \in 1..self.arity |->
        Constructor(self.arity, gen_rewrited_generic_type(self.types, k, f.ret), i,
                    IF i = k THEN f ELSE Identity(self.types[i]))]

\* C29: fold and map agree.  For every arity, slot k and value x, x.map_tk(f)
\* equals x.fold(T1, .., Tk after f, .., TN); folding with the N constructors
\* returns a value equal to x; map_tk with the identity returns a value equal
\* to x; and maps on two different slots commute (the second map being one
\* the program can still make).
C29_FoldAndMapAgree ==
    /\ call.name = "map_tx" =>
        /\ call.ret = fold(call.self, Composed(call.self, call.x, call.arg)).ret
        /\ map_tx(call.self, call.x, Identity(call.self.types[call.x])).ret = call.self
        /\ made.maps < MaxMaps =>
            \A y \in (1..call.self.arity) \ {call.x} : \A g \in MapClosures :
                map_tx(call.ret, y, g).ret
                    = map_tx(map_tx(call.self, y, g).ret, call.x, call.arg).ret
    /\ (call.name = "fold" /\ call.arg = Constructors(call.self)) =>
        call.ret = call.self

\* an Or9 that was mapped in its active slot and then folded with its nine
\* constructors
C29_Witness ==
    /\ call.name = "fold"
    /\ call.self.arity = GEN_COUNT
    /\ call.arg = Constructors(call.self)
    /\ made.maps > 0
    /\ call.self.val # made.val
    /\ call.ret = call.self

====
